---------------------------- MODULE Spec2Model ----------------------------
(***************************************************************************)
(* Model of the daily-limit optimizer of Backtest-Analyzer                  *)
(* (src/optimizer.py, src/trade_model.py).                                  *)
(*                                                                         *)
(* Money is modelled in whole USD (integers).  Trade objects live in a     *)
(* heap (trade_objs) and lists hold references (indices into the heap), as *)
(* Python lists hold references to Trade objects.  A Trade whose           *)
(* profit_usd is not a number (numeric = FALSE) makes arithmetic on it     *)
(* raise, which is how an evaluation of one pair fails.                    *)
(***************************************************************************)
EXTENDS Integers, Sequences, FiniteSets, TLC

VARIABLES
    trade_objs,       \* heap of Trade objects: sequence of Trade records
    original_trades,  \* DailyLimitOptimizer.original_trades.trades: list of references
    results,          \* DailyLimitOptimizer.results
    pc,               \* position of run_optimization: "idle", "collecting", "done", "raised"
    profit_limits,    \* argument of run_optimization
    loss_limits,      \* argument of run_optimization
    combinations,     \* local of run_optimization (line 22)
    max_workers,      \* argument of run_optimization
    futures,          \* the submitted futures, in submission order
    collected,        \* futures already yielded by as_completed
    returned,         \* what the last call of a query method returned
    main_window,      \* gui/main_window.py: MainWindow
    optimization_panel, \* gui/optimization_panel.py: OptimizationPanel
    results_panel,    \* gui/results_panel.py: ResultsPanel
    data_processor    \* data_processor.py: DataProcessor

\* the user interface and its data processor
gui == <<main_window, optimization_panel, results_panel, data_processor>>

vars == <<trade_objs, original_trades, results, pc, profit_limits, loss_limits,
          combinations, max_workers, futures, collected, returned,
          main_window, optimization_panel, results_panel, data_processor>>

-----------------------------------------------------------------------------
(* Bounds of the model *)

MaxTrades == 3
MaxDays == 2
MaxSweepTrades == 3
MaxCurveLen == 4
MaxCollTrades == 3
MantissaBits == 3
\* rows of the DataFrame given to the DataProcessor
MaxRows == 3

DefaultMaxWorkers == 4

Days == 1..MaxDays

\* profit_usd values of the trades of a simulated day
ProfitValues == {-60, -50, 30, 40, 50}
\* limit values of a single simulation; non-positive limits disable a check
SimProfitLimits == {0, 100, 200}
SimLossLimits == {-100, 50, 100}

\* profit_usd values and limit values of a sweep
SweepProfitValues == {-60, 50}
SweepProfitLimits == {100, 200}
SweepLossLimits == {50, 100}
MaxWorkersValues == {1, 2, DefaultMaxWorkers}

\* the trades a TradeCollection is built from and grows by: entry_time is
\* <<date, time of day>>, a datetime argument at time of day 0 is midnight
CollDates == {1, 2}
CollSlots == {1, 2}
CollProfits == {-60, 0, 50}

\* lookups by id: amounts in tenths of a USD, so that limits can be
\* non-integer (100.0, 100.4 and 101.5 USD against trades of -60.0 and 50.0)
TenthsPerUSD == 10
FineProfitValues == {-600, 500}
FineProfitLimits == {1000, 1004, 1015}
FineLossLimits == {500}

\* the rows given to the DataProcessor: <<profit, max trade profit, max
\* trade loss>>; a column missing from the file is parsed as 0
ProcessorRows == {<<50, 50, 0>>, <<50, 120, -20>>, <<150, 0, 0>>,
                  <<-60, 10, -60>>, <<-60, 0, 0>>}
ProcessorDays == {1, 2}
ProcessorProfitLimits == {0, 100}
ProcessorLossLimits == {-100, 100}

\* samples of the equity curves given to _calculate_max_drawdown
EquityValues == {-50, 0, 50, 100}

-----------------------------------------------------------------------------
(* Generic helpers *)

RECURSIVE SumSeq(_)
SumSeq(s) == IF s = <<>> THEN 0 ELSE Head(s) + SumSeq(Tail(s))

Min(S) == CHOOSE x \in S : \A y \in S : x <= y

\* Python's sorted() on a set of integers
RECURSIVE SortedList(_)
SortedList(S) == IF S = {} THEN <<>> ELSE <<Min(S)>> \o SortedList(S \ {Min(S)})

\* duplicate-free sequences over S, of length 1..Cardinality(S)
DistinctSeqs(S) ==
    {s \in UNION {[1..n -> S] : n \in 1..Cardinality(S)} :
        \A i, j \in DOMAIN s : i # j => s[i] # s[j]}

-----------------------------------------------------------------------------
(* trade_model.py: Trade *)

\* entry_time is <<day, slot within the day>>
trade_date(t) == t.entry_time[1]

is_profitable(t) == t.profit_usd > 0

EntryTimeLess(a, b) ==
    \/ a.entry_time[1] < b.entry_time[1]
    \/ a.entry_time[1] = b.entry_time[1] /\ a.entry_time[2] < b.entry_time[2]

-----------------------------------------------------------------------------
(* trade_model.py: TradeCollection; a collection is its list of references *)

\* list.sort(key=entry_time): stable insertion of one reference into a sorted list
RECURSIVE InsertSorted(_, _, _)
InsertSorted(objs, sorted, ref) ==
    IF sorted = <<>> THEN <<ref>>
    ELSE IF EntryTimeLess(objs[ref], objs[Head(sorted)])
         THEN <<ref>> \o sorted
         ELSE <<Head(sorted)>> \o InsertSorted(objs, Tail(sorted), ref)

RECURSIVE SortFrom(_, _, _)
SortFrom(objs, sorted, rest) ==
    IF rest = <<>> THEN sorted
    ELSE SortFrom(objs, InsertSorted(objs, sorted, Head(rest)), Tail(rest))

\* the list left as it is, line 45 missing
KeepOrder(objs, trades) == trades

_sort_trades(objs, trades) == SortFrom(objs, <<>>, trades)

\* lines 47-50
add_trade(objs, trades, ref) == _sort_trades(objs, Append(trades, ref))

\* datetime.replace(hour=0, minute=0, second=0, microsecond=0)
Midnight(datetime) == datetime[1]

\* TradeCollection(trades): keeps the list it is given and sorts it in place
TradeCollectionInit(objs, trades) == _sort_trades(objs, trades)

get_trades_by_date(objs, trades, date) ==
    SelectSeq(trades, LAMBDA ref : trade_date(objs[ref]) = date)

\* the dates of all trades without set(): one entry per trade
get_unique_dates_all(objs, trades) ==
    [i \in DOMAIN trades |-> trade_date(objs[trades[i]])]

\* lines 57-63; None is the record with none = TRUE
get_date_range(objs, trades) ==
    IF trades = <<>> THEN [none |-> TRUE, min |-> 0, max |-> 0]
    ELSE LET dates == {trade_date(objs[trades[i]]) : i \in DOMAIN trades}
         IN  [none |-> FALSE, min |-> Min(dates),
              max |-> CHOOSE x \in dates : \A y \in dates : x >= y]

get_unique_dates(objs, trades) ==
    IF trades = <<>> THEN <<>>
    ELSE SortedList({trade_date(objs[trades[i]]) : i \in DOMAIN trades})

ProfitsOf(objs, trades) == [i \in DOMAIN trades |-> objs[trades[i]].profit_usd]

get_total_profit(objs, trades) == SumSeq(ProfitsOf(objs, trades))

\* the quotient without lines 79-80; den = 0 is ZeroDivisionError
get_win_rate_unguarded(objs, trades) ==
    [num |-> Cardinality({i \in DOMAIN trades : is_profitable(objs[trades[i]])}),
     den |-> Len(trades)]

\* a float quotient is kept as the exact fraction num/den
get_win_rate(objs, trades) ==
    IF trades = <<>> THEN [num |-> 0, den |-> 1]
    ELSE [num |-> Cardinality({i \in DOMAIN trades : is_profitable(objs[trades[i]])}),
          den |-> Len(trades)]

\* the quotient with 0.0 for every collection without losses
get_profit_factor_finite(objs, trades) ==
    LET total_profit ==
            SumSeq(ProfitsOf(objs, SelectSeq(trades, LAMBDA r : is_profitable(objs[r]))))
        loss_sum ==
            SumSeq(ProfitsOf(objs, SelectSeq(trades, LAMBDA r : ~is_profitable(objs[r]))))
        total_loss == IF loss_sum < 0 THEN -loss_sum ELSE loss_sum
    IN  IF total_loss = 0
        THEN [inf |-> FALSE, num |-> 0, den |-> 1]
        ELSE [inf |-> FALSE, num |-> total_profit, den |-> total_loss]

\* float('inf') is the fraction with inf = TRUE
get_profit_factor(objs, trades) ==
    LET total_profit ==
            SumSeq(ProfitsOf(objs, SelectSeq(trades, LAMBDA r : is_profitable(objs[r]))))
        loss_sum ==
            SumSeq(ProfitsOf(objs, SelectSeq(trades, LAMBDA r : ~is_profitable(objs[r]))))
        total_loss == IF loss_sum < 0 THEN -loss_sum ELSE loss_sum
    IN  IF total_loss = 0
        THEN [inf |-> total_profit > 0, num |-> 0, den |-> 1]
        ELSE [inf |-> FALSE, num |-> total_profit, den |-> total_loss]

-----------------------------------------------------------------------------
(* optimizer.py: DailyLimitOptimizer._evaluate_parameters *)

\* line 75: a day that already hit a limit skips the trade
SkipTradeNever(hit_profit_limit, hit_loss_limit) == FALSE

SkipTrade(hit_profit_limit, hit_loss_limit) == hit_profit_limit \/ hit_loss_limit

\* line 85
HitsProfitLimit(daily_profit_limit, daily_cumulative_profit) ==
    daily_profit_limit > 0 /\ daily_cumulative_profit >= daily_profit_limit

HitsLossLimitUnguarded(daily_loss_limit, daily_cumulative_profit) ==
    daily_cumulative_profit <= -daily_loss_limit

\* line 91
HitsLossLimit(daily_loss_limit, daily_cumulative_profit) ==
    daily_loss_limit > 0 /\ daily_cumulative_profit <= -daily_loss_limit

ClampProfitKeepsTotal(daily_profit_limit, daily_cumulative_profit) ==
    daily_cumulative_profit

\* line 87 written as "+=": the limit is added to the running total
ClampProfitAdds(daily_profit_limit, daily_cumulative_profit) ==
    daily_cumulative_profit + daily_profit_limit

\* line 87
ClampProfit(daily_profit_limit, daily_cumulative_profit) == daily_profit_limit

ClampLossKeepsTotal(daily_loss_limit, daily_cumulative_profit) ==
    daily_cumulative_profit

\* line 93
ClampLoss(daily_loss_limit, daily_cumulative_profit) == -daily_loss_limit

\* state of the loop over one day's trades (lines 66-70) and what it shares
\* with the enclosing loop: the heap, the hit-day counters, a raised exception
DayState(objs, hit_profit_limit_days, hit_loss_limit_days) ==
    [objs |-> objs,
     daily_cumulative_profit |-> 0,
     daily_included_trades |-> <<>>,
     hit_profit_limit |-> FALSE,
     hit_loss_limit |-> FALSE,
     hit_profit_limit_days |-> hit_profit_limit_days,
     hit_loss_limit_days |-> hit_loss_limit_days,
     raised |-> FALSE]

\* the loop body with the triggering trade's profit_usd overwritten by its
\* adjusted value
ProcessTradeAdjustingProfit(st, trade, daily_profit_limit, daily_loss_limit) ==
    IF st.raised \/ SkipTrade(st.hit_profit_limit, st.hit_loss_limit) THEN st
    ELSE IF ~st.objs[trade].numeric THEN [st EXCEPT !.raised = TRUE]
    ELSE
    LET added == st.daily_cumulative_profit + st.objs[trade].profit_usd
        hit_profit == HitsProfitLimit(daily_profit_limit, added)
        after_profit == IF hit_profit THEN ClampProfit(daily_profit_limit, added)
                        ELSE added
        hit_loss == HitsLossLimit(daily_loss_limit, after_profit)
        after_loss == IF hit_loss THEN ClampLoss(daily_loss_limit, after_profit)
                      ELSE after_profit
    IN  [st EXCEPT
            !.objs[trade].profit_usd = after_loss - st.daily_cumulative_profit,
            !.daily_cumulative_profit = after_loss,
            !.daily_included_trades = Append(@, trade),
            !.hit_profit_limit = @ \/ hit_profit,
            !.hit_loss_limit = @ \/ hit_loss,
            !.hit_profit_limit_days = IF hit_profit THEN @ + 1 ELSE @,
            !.hit_loss_limit_days = IF hit_loss THEN @ + 1 ELSE @]

\* lines 73-94: the body of the loop over the day's trades; the Trade object
\* is read and its reference appended, no field of it is assigned
ProcessTrade(st, trade, daily_profit_limit, daily_loss_limit) ==
    IF st.raised \/ SkipTrade(st.hit_profit_limit, st.hit_loss_limit) THEN st
    ELSE IF ~st.objs[trade].numeric THEN [st EXCEPT !.raised = TRUE]
    ELSE
    LET added == st.daily_cumulative_profit + st.objs[trade].profit_usd
        hit_profit == HitsProfitLimit(daily_profit_limit, added)
        after_profit == IF hit_profit THEN ClampProfit(daily_profit_limit, added)
                        ELSE added
        hit_loss == HitsLossLimit(daily_loss_limit, after_profit)
        after_loss == IF hit_loss THEN ClampLoss(daily_loss_limit, after_profit)
                      ELSE after_profit
    IN  [st EXCEPT
            !.daily_cumulative_profit = after_loss,
            !.daily_included_trades = Append(@, trade),
            !.hit_profit_limit = @ \/ hit_profit,
            !.hit_loss_limit = @ \/ hit_loss,
            !.hit_profit_limit_days = IF hit_profit THEN @ + 1 ELSE @,
            !.hit_loss_limit_days = IF hit_loss THEN @ + 1 ELSE @]

\* line 73: for trade in daily_trades
RECURSIVE DayLoop(_, _, _, _)
DayLoop(st, daily_trades, daily_profit_limit, daily_loss_limit) ==
    IF daily_trades = <<>> THEN st
    ELSE DayLoop(ProcessTrade(st, Head(daily_trades), daily_profit_limit,
                              daily_loss_limit),
                 Tail(daily_trades), daily_profit_limit, daily_loss_limit)

\* the loop without lines 155-156: the peak stays at the first sample
RECURSIVE DrawdownLoopFixedPeak(_, _, _)
DrawdownLoopFixedPeak(equity_curve, peak, max_dd) ==
    IF equity_curve = <<>> THEN max_dd
    ELSE LET dd == peak - Head(equity_curve)
         IN  DrawdownLoopFixedPeak(Tail(equity_curve), peak,
                                   IF dd > max_dd THEN dd ELSE max_dd)

\* lines 149-161
RECURSIVE DrawdownLoop(_, _, _)
DrawdownLoop(equity_curve, peak, max_dd) ==
    IF equity_curve = <<>> THEN max_dd
    ELSE LET value == Head(equity_curve)
             peak1 == IF value > peak THEN value ELSE peak
             dd == peak1 - value
         IN  DrawdownLoop(Tail(equity_curve), peak1, IF dd > max_dd THEN dd ELSE max_dd)

_calculate_max_drawdown(equity_curve) ==
    DrawdownLoop(equity_curve, equity_curve[1], 0)

\* lines 51-60: the locals of _evaluate_parameters before the loop over dates
EvalState(objs) ==
    [objs |-> objs,
     raised |-> FALSE,
     optimized_trades |-> <<>>,
     daily_metrics |-> <<>>,
     equity_curve |-> <<0>>,
     total_profit |-> 0,
     profit_days |-> 0,
     loss_days |-> 0,
     hit_profit_limit_days |-> 0,
     hit_loss_limit_days |-> 0]

\* an equity curve of the days' profits instead of their running sum
DailyEquity(total_profit, daily_cumulative_profit) == daily_cumulative_profit

\* line 97: total_profit += daily_cumulative_profit
AddDayProfit(total_profit, daily_cumulative_profit) ==
    total_profit + daily_cumulative_profit

\* lines 63-115: the body of the loop over the dates
ProcessDate(acc, trades, date, daily_profit_limit, daily_loss_limit) ==
    IF acc.raised THEN acc
    ELSE
    LET daily_trades == get_trades_by_date(acc.objs, trades, date)
        st == DayLoop(DayState(acc.objs, acc.hit_profit_limit_days,
                               acc.hit_loss_limit_days),
                      daily_trades, daily_profit_limit, daily_loss_limit)
        total_profit == AddDayProfit(acc.total_profit, st.daily_cumulative_profit)
    IN  IF st.raised THEN [acc EXCEPT !.raised = TRUE, !.objs = st.objs]
        ELSE [objs |-> st.objs,
              raised |-> FALSE,
              optimized_trades |-> acc.optimized_trades \o st.daily_included_trades,
              daily_metrics |->
                  (date :> [profit |-> st.daily_cumulative_profit,
                            trade_count |-> Len(st.daily_included_trades),
                            hit_profit_limit |-> st.hit_profit_limit,
                            hit_loss_limit |-> st.hit_loss_limit])
                  @@ acc.daily_metrics,
              equity_curve |-> Append(acc.equity_curve, total_profit),
              total_profit |-> total_profit,
              profit_days |-> IF st.daily_cumulative_profit > 0
                              THEN acc.profit_days + 1 ELSE acc.profit_days,
              loss_days |-> IF st.daily_cumulative_profit < 0
                            THEN acc.loss_days + 1 ELSE acc.loss_days,
              hit_profit_limit_days |-> st.hit_profit_limit_days,
              hit_loss_limit_days |-> st.hit_loss_limit_days]

\* line 63: for date in unique_dates
RECURSIVE DateLoop(_, _, _, _, _)
DateLoop(acc, trades, unique_dates, daily_profit_limit, daily_loss_limit) ==
    IF unique_dates = <<>> THEN acc
    ELSE DateLoop(ProcessDate(acc, trades, Head(unique_dates), daily_profit_limit,
                              daily_loss_limit),
                  trades, Tail(unique_dates), daily_profit_limit, daily_loss_limit)

\* the value of a future whose call raised
NoResult == [daily_profit_limit |-> 0, daily_loss_limit |-> 0]

\* the reference self.original_trades (the one collection the optimizer holds)
OriginalCollection == "original_trades"

\* lines 45-147.  Returns the heap after the call, whether the call raised,
\* and the OptimizationResult it returned.
_evaluate_parameters(objs, trades, daily_profit_limit, daily_loss_limit) ==
    LET unique_dates == get_unique_dates(objs, trades)
        acc == DateLoop(EvalState(objs), trades, unique_dates, daily_profit_limit,
                        daily_loss_limit)
        optimized_collection == TradeCollectionInit(acc.objs, acc.optimized_trades)
    IN  IF acc.raised
        THEN [objs |-> acc.objs, raised |-> TRUE, result |-> NoResult]
        ELSE [objs |-> acc.objs,
              raised |-> FALSE,
              result |->
                [daily_profit_limit |-> daily_profit_limit,
                 daily_loss_limit |-> daily_loss_limit,
                 trades |-> optimized_collection,
                 original_trades |-> OriginalCollection,
                 total_profit |-> acc.total_profit,
                 profit_factor |-> get_profit_factor(acc.objs, optimized_collection),
                 win_rate |-> get_win_rate(acc.objs, optimized_collection),
                 total_trade_days |-> Len(unique_dates),
                 profit_days |-> acc.profit_days,
                 loss_days |-> acc.loss_days,
                 hit_profit_limit_days |-> acc.hit_profit_limit_days,
                 hit_loss_limit_days |-> acc.hit_loss_limit_days,
                 max_drawdown |-> _calculate_max_drawdown(acc.equity_curve),
                 trade_count |-> Len(acc.optimized_trades),
                 daily_metrics |-> acc.daily_metrics,
                 equity_curve |-> acc.equity_curve]]

-----------------------------------------------------------------------------
(* optimizer.py: DailyLimitOptimizer.run_optimization *)

\* line 22: [(pl, ll) for pl in profit_limits for ll in loss_limits]
CombinationsZipped(pls, lls) ==
    [k \in 1..Min({Len(pls), Len(lls)}) |-> <<pls[k], lls[k]>>]

Combinations(pls, lls) ==
    [k \in 1..(Len(pls) * Len(lls)) |->
        <<pls[((k - 1) \div Len(lls)) + 1], lls[((k - 1) % Len(lls)) + 1]>>]

PendingFuture == [state |-> "pending", raised |-> FALSE, result |-> NoResult]

\* ThreadPoolExecutor: the work queue is first in, first out, and at most
\* max_workers threads take work from it
RunningCount == Cardinality({i \in DOMAIN futures : futures[i].state = "running"})

\* a pool that starts a thread for every work item
WorkerAlwaysAvailable(running, workers) == TRUE

\* ThreadPoolExecutor._adjust_thread_count: a new thread only below max_workers
WorkerAvailable(running, workers) == running < workers

NextInQueue(i) ==
    /\ futures[i].state = "pending"
    /\ \A j \in DOMAIN futures : j < i => futures[j].state # "pending"

\* lines 35-39 without the try/except: the exception leaves run_optimization
CollectPropagating(res, future) ==
    IF future.raised THEN [results |-> res, raised |-> TRUE]
    ELSE [results |-> Append(res, future.result), raised |-> FALSE]

\* lines 35-39: the result is appended, an exception is printed and dropped
CollectFuture(res, future) ==
    IF future.raised THEN [results |-> res, raised |-> FALSE]
    ELSE [results |-> Append(res, future.result), raised |-> FALSE]

\* list.sort(key=total_profit, reverse=False): stable, ascending
RECURSIVE InsertAscending(_, _)
InsertAscending(sorted, r) ==
    IF sorted = <<>> THEN <<r>>
    ELSE IF r.total_profit < Head(sorted).total_profit
         THEN <<r>> \o sorted
         ELSE <<Head(sorted)>> \o InsertAscending(Tail(sorted), r)

RECURSIVE SortAscendingFrom(_, _)
SortAscendingFrom(sorted, rest) ==
    IF rest = <<>> THEN sorted
    ELSE SortAscendingFrom(InsertAscending(sorted, Head(rest)), Tail(rest))

SortResultsAscending(res) == SortAscendingFrom(<<>>, res)

\* list.sort(key=total_profit, reverse=True): stable, descending; a result
\* goes behind the results of equal or larger total_profit already placed
RECURSIVE InsertDescending(_, _)
InsertDescending(sorted, r) ==
    IF sorted = <<>> THEN <<r>>
    ELSE IF r.total_profit > Head(sorted).total_profit
         THEN <<r>> \o sorted
         ELSE <<Head(sorted)>> \o InsertDescending(Tail(sorted), r)

RECURSIVE SortDescendingFrom(_, _)
SortDescendingFrom(sorted, rest) ==
    IF rest = <<>> THEN sorted
    ELSE SortDescendingFrom(InsertDescending(sorted, Head(rest)), Tail(rest))

\* line 42
SortResults(res) == SortDescendingFrom(<<>>, res)

\* lines 21-30: the results are reset and every combination is submitted
Submit(pls, lls, workers) ==
    /\ profit_limits' = pls
    /\ loss_limits' = lls
    /\ results' = <<>>
    /\ combinations' = Combinations(pls, lls)
    /\ max_workers' = workers
    /\ futures' = [k \in DOMAIN combinations' |-> PendingFuture]
    /\ collected' = {}
    /\ pc' = "collecting"
    /\ UNCHANGED <<trade_objs, original_trades, returned>>

\* run_optimization called on an optimizer that was not used before
Call(pls, lls, workers) ==
    /\ pc = "idle"
    /\ Submit(pls, lls, workers)
    /\ UNCHANGED gui

\* a sweep over a grid of limits
RunOptimization ==
    \E pls \in DistinctSeqs(SweepProfitLimits),
       lls \in DistinctSeqs(SweepLossLimits),
       workers \in MaxWorkersValues :
        Call(pls, lls, workers)

\* a sweep over a single pair: one simulation
RunSinglePair ==
    \E pl \in SimProfitLimits, ll \in SimLossLimits :
        Call(<<pl>>, <<ll>>, DefaultMaxWorkers)

\* a worker thread takes the next work item
WorkerStart(i) ==
    /\ pc = "collecting"
    /\ NextInQueue(i)
    /\ WorkerAvailable(RunningCount, max_workers)
    /\ futures' = [futures EXCEPT ![i].state = "running"]
    /\ UNCHANGED <<trade_objs, original_trades, results, pc, profit_limits,
                   loss_limits, combinations, max_workers, collected, returned>>
    /\ UNCHANGED gui

\* the worker runs _evaluate_parameters and sets the future's result or exception
WorkerFinish(i) ==
    /\ pc = "collecting"
    /\ futures[i].state = "running"
    /\ LET out == _evaluate_parameters(trade_objs, original_trades,
                                       combinations[i][1], combinations[i][2])
       IN  /\ trade_objs' = out.objs
           /\ futures' = [futures EXCEPT ![i] = [state |-> "finished",
                                                 raised |-> out.raised,
                                                 result |-> out.result]]
    /\ UNCHANGED <<original_trades, results, pc, profit_limits, loss_limits,
                   combinations, max_workers, collected, returned>>
    /\ UNCHANGED gui

\* lines 33-39: as_completed yields a finished future; those already finished
\* when it looks are yielded from a set, in no particular order
Collect(i) ==
    /\ pc = "collecting"
    /\ futures[i].state = "finished"
    /\ i \notin collected
    /\ LET out == CollectFuture(results, futures[i])
       IN  /\ results' = out.results
           /\ pc' = IF out.raised THEN "raised" ELSE pc
    /\ collected' = collected \cup {i}
    /\ UNCHANGED <<trade_objs, original_trades, profit_limits, loss_limits,
                   combinations, max_workers, futures, returned>>
    /\ UNCHANGED gui

\* lines 41-43: every future was yielded; sort and return
SortAndReturn ==
    /\ pc = "collecting"
    /\ collected = DOMAIN futures
    /\ results' = SortResults(results)
    /\ pc' = "done"
    /\ UNCHANGED <<trade_objs, original_trades, profit_limits, loss_limits,
                   combinations, max_workers, futures, collected, returned>>
    /\ UNCHANGED gui

\* max() keeping the last of several maximal elements
RECURSIVE MaxByTotalProfitLast(_, _)
MaxByTotalProfitLast(best, rest) ==
    IF rest = <<>> THEN best
    ELSE MaxByTotalProfitLast(IF Head(rest).total_profit >= best.total_profit
                              THEN Head(rest) ELSE best,
                              Tail(rest))

\* line 171: max(iterable, key=total_profit) keeps the first maximal element
RECURSIVE MaxByTotalProfit(_, _)
MaxByTotalProfit(best, rest) ==
    IF rest = <<>> THEN best
    ELSE MaxByTotalProfit(IF Head(rest).total_profit > best.total_profit
                          THEN Head(rest) ELSE best,
                          Tail(rest))

\* lines 167-171; None is the record with none = TRUE
get_best_result(res) ==
    IF res = <<>> THEN [none |-> TRUE, result |-> NoResult]
    ELSE [none |-> FALSE, result |-> MaxByTotalProfit(Head(res), Tail(res))]

\* the caller asks for the best result of the run that has returned
GetBestResult ==
    /\ pc = "done"
    /\ returned' = [op |-> "get_best_result", value |-> get_best_result(results)]
    /\ UNCHANGED <<trade_objs, original_trades, results, pc, profit_limits,
                   loss_limits, combinations, max_workers, futures, collected>>
    /\ UNCHANGED gui

-----------------------------------------------------------------------------
(* Initial states: the optimizer after construction (lines 12-14) *)

\* the profit_usd field of a Trade: a number, or (malformed) not a number
ProfitFields(profits, malformed) ==
    {[profit_usd |-> v, numeric |-> TRUE] : v \in profits}
    \cup (IF malformed THEN {[profit_usd |-> 0, numeric |-> FALSE]} ELSE {})

\* the heaps of n Trade objects in ascending entry_time order
TradeHeaps(n, days, profits, malformed) ==
    {[i \in 1..n |-> [trade_id |-> i,
                      entry_time |-> <<d[i], i>>,
                      profit_usd |-> p[i].profit_usd,
                      numeric |-> p[i].numeric]] :
        d \in {dd \in [1..n -> days] : \A i \in 2..n : dd[i - 1] <= dd[i]},
        p \in [1..n -> ProfitFields(profits, malformed)]}

\* no query method has been called yet
NoCall == [op |-> "none"]

\* data_processor.py lines 23-26; None is the record with none = TRUE
NewProcessor ==
    [trades |-> [none |-> TRUE], daily_trades |-> [none |-> TRUE],
     progress_signal |-> <<>>, status_signal |-> <<>>]

\* the optimizer or the collection is used without the user interface
NoGui ==
    /\ main_window = [optimizer |-> FALSE]
    /\ optimization_panel = [is_running |-> FALSE]
    /\ results_panel = [results |-> "own"]
    /\ data_processor = NewProcessor

InitOptimizer ==
    /\ original_trades = [i \in DOMAIN trade_objs |-> i]
    /\ results = <<>>
    /\ pc = "idle"
    /\ profit_limits = <<>>
    /\ loss_limits = <<>>
    /\ combinations = <<>>
    /\ max_workers = DefaultMaxWorkers
    /\ futures = <<>>
    /\ collected = {}
    /\ returned = NoCall
    /\ NoGui

\* sweeps: the trades of one day, some of them possibly malformed
Init ==
    /\ trade_objs \in UNION {TradeHeaps(n, {1}, SweepProfitValues, TRUE) :
                                n \in 0..MaxSweepTrades}
    /\ InitOptimizer

Next ==
    \/ RunOptimization
    \/ \E i \in DOMAIN futures : WorkerStart(i)
    \/ \E i \in DOMAIN futures : WorkerFinish(i)
    \/ \E i \in DOMAIN futures : Collect(i)
    \/ SortAndReturn
    \/ GetBestResult

Spec == Init /\ [][Next]_vars

\* WorkerFinish is enabled, and a step of it
EvaluationRunning ==
    pc = "collecting" /\ \E i \in DOMAIN futures : futures[i].state = "running"

EvaluationFinishes ==
    \E i \in DOMAIN futures :
        futures[i].state = "running" /\ futures'[i].state = "finished"

\* the pool's threads run whenever they can, and so does the collecting loop
\* of the calling thread; the second conjunct is weak fairness of WorkerFinish
Fairness ==
    /\ WF_vars(\E i \in DOMAIN futures : WorkerStart(i))
    /\ []<>(~EvaluationRunning) \/ []<><<EvaluationFinishes>>_vars
    /\ WF_vars(\E i \in DOMAIN futures : Collect(i))
    /\ WF_vars(SortAndReturn)

SpecFair == Spec /\ Fairness

\* single simulations: well-formed trades over several days
InitSim ==
    /\ trade_objs \in UNION {TradeHeaps(n, Days, ProfitValues, FALSE) : n \in 0..MaxTrades}
    /\ InitOptimizer

NextSim ==
    \/ RunSinglePair
    \/ \E i \in DOMAIN futures : WorkerStart(i)
    \/ \E i \in DOMAIN futures : WorkerFinish(i)
    \/ \E i \in DOMAIN futures : Collect(i)
    \/ SortAndReturn

SpecSim == InitSim /\ [][NextSim]_vars

-----------------------------------------------------------------------------
(* Vocabulary of the properties *)

\* the OptimizationResults that _evaluate_parameters has returned
Produced ==
    {futures[i].result :
        i \in {j \in DOMAIN futures : futures[j].state = "finished" /\ ~futures[j].raised}}

TradeDates == {trade_date(trade_objs[original_trades[i]]) : i \in DOMAIN original_trades}

\* a day's trades of the original collection, in chronological order
DayTrades(d) == SelectSeq(original_trades, LAMBDA ref : trade_objs[ref].entry_time[1] = d)

DayProfits(d) == [i \in DOMAIN DayTrades(d) |-> trade_objs[DayTrades(d)[i]].profit_usd]

\* the day's running total after its first k trades
RunningTotal(d, k) == SumSeq(SubSeq(DayProfits(d), 1, k))

\* the trades of a result that lie on day d
IncludedOn(r, d) == SelectSeq(r.trades, LAMBDA ref : trade_objs[ref].entry_time[1] = d)

\* the trade at which the running total first reaches a limit, else the last
StopIndex(d, pl, ll) ==
    LET hits == {k \in 1..Len(DayTrades(d)) :
                    RunningTotal(d, k) >= pl \/ RunningTotal(d, k) <= -ll}
    IN  IF hits = {} THEN Len(DayTrades(d)) ELSE Min(hits)

BothLimitsPositive(r) == r.daily_profit_limit > 0 /\ r.daily_loss_limit > 0

-----------------------------------------------------------------------------
(* Properties of one simulation (SpecSim) *)

C2_DayProfit ==
    \A r \in Produced : BothLimitsPositive(r) =>
        \A d \in TradeDates :
            LET m == r.daily_metrics[d]
            IN  /\ m.hit_profit_limit => m.profit = r.daily_profit_limit
                /\ m.hit_loss_limit => m.profit = -r.daily_loss_limit
                /\ (~m.hit_profit_limit /\ ~m.hit_loss_limit)
                        => m.profit = SumSeq(DayProfits(d))
                /\ (DayProfits(d) = <<-60, -50>> /\ r.daily_loss_limit = 100)
                        => /\ m.profit = -100
                           /\ m.hit_loss_limit
                           /\ IncludedOn(r, d) = DayTrades(d)

\* C2 witness: scenario B
C2_Witness ==
    \E r \in Produced : \E d \in TradeDates :
        /\ BothLimitsPositive(r)
        /\ DayProfits(d) = <<-60, -50>>
        /\ r.daily_loss_limit = 100
        /\ r.daily_metrics[d].hit_loss_limit
        /\ r.daily_metrics[d].profit = -100

ScenarioA(r, d) == DayProfits(d) = <<50, 40, 30>> /\ r.daily_profit_limit = 100

\* C3 as stated: in scenario A (trades +50, +40, +30, profit limit 100) the
\* day's profit is 100, hit_profit_limit is set and only the first two trades
\* are included.
C3_ScenarioA_FirstTwoOnly ==
    \A r \in Produced : \A d \in TradeDates :
        ScenarioA(r, d) =>
            /\ r.daily_metrics[d].profit = 100
            /\ r.daily_metrics[d].hit_profit_limit
            /\ IncludedOn(r, d) = SubSeq(DayTrades(d), 1, 2)

\* C3 amended: in scenario A the day's profit is 100, hit_profit_limit is set
\* and all three trades are included: the third trade is the one that takes
\* the running total from 90 to 120 >= 100, and the triggering trade is included.
C3_ScenarioA_AllThree ==
    \A r \in Produced : \A d \in TradeDates :
        ScenarioA(r, d) =>
            /\ r.daily_metrics[d].profit = 100
            /\ r.daily_metrics[d].hit_profit_limit
            /\ ~r.daily_metrics[d].hit_loss_limit
            /\ IncludedOn(r, d) = DayTrades(d)
            /\ r.daily_metrics[d].trade_count = 3

\* C3 witness: scenario A has been simulated
C3_Witness ==
    \E r \in Produced : \E d \in TradeDates :
        /\ ScenarioA(r, d)
        /\ r.daily_metrics[d].hit_profit_limit
        /\ Len(IncludedOn(r, d)) = 3

\* the running total of day d first reaches the profit limit at trade k, no
\* earlier trade having reached a limit that is in force
ReachesProfitLimitAt(d, k, pl, ll) ==
    /\ pl > 0
    /\ RunningTotal(d, k) >= pl
    /\ \A j \in 1..(k - 1) :
          /\ RunningTotal(d, j) < pl
          /\ ~(ll > 0 /\ RunningTotal(d, j) <= -ll)

\* C4: for all limit values, no day has both hit flags set; a day is counted
\* in at most one of hit_profit_limit_days / hit_loss_limit_days; and a day
\* whose running total reaches the profit limit is a profit-limit hit only.
C4_FlagsExclusive ==
    \A r \in Produced :
        /\ \A d \in TradeDates :
              /\ ~(r.daily_metrics[d].hit_profit_limit /\ r.daily_metrics[d].hit_loss_limit)
              /\ (\E k \in 1..Len(DayTrades(d)) :
                      ReachesProfitLimitAt(d, k, r.daily_profit_limit, r.daily_loss_limit))
                    => /\ r.daily_metrics[d].hit_profit_limit
                       /\ ~r.daily_metrics[d].hit_loss_limit
        /\ r.hit_profit_limit_days =
              Cardinality({d \in TradeDates : r.daily_metrics[d].hit_profit_limit})
        /\ r.hit_loss_limit_days =
              Cardinality({d \in TradeDates : r.daily_metrics[d].hit_loss_limit})
        /\ r.hit_profit_limit_days + r.hit_loss_limit_days <= r.total_trade_days

\* C4 witness: a day capped at a profit limit of 100 under a loss limit of
\* -100, so that the capped total 100 also satisfies total <= -loss limit
C4_Witness ==
    \E r \in Produced : \E d \in TradeDates :
        /\ r.daily_profit_limit = 100
        /\ r.daily_loss_limit = -100
        /\ r.daily_metrics[d].hit_profit_limit
        /\ r.daily_metrics[d].profit <= -r.daily_loss_limit

\* C5 as stated: the trades of a result carry clamped profits, so the sum of
\* profit_usd over result.trades equals result.total_profit.
C5_TradesCarryClampedProfits ==
    \A r \in Produced : get_total_profit(trade_objs, r.trades) = r.total_profit

-----------------------------------------------------------------------------
(* Properties of a sweep (Spec) *)

Succeeded == {i \in DOMAIN futures : futures[i].state = "finished" /\ ~futures[i].raised}

Failed == {i \in DOMAIN futures : futures[i].state = "finished" /\ futures[i].raised}

PairOf(r) == <<r.daily_profit_limit, r.daily_loss_limit>>

\* C6: the returned list is ordered by total_profit descending; for profit
\* limits [100, 200] and loss limits [50], if the pair (200, 50) has the
\* higher total_profit it is the first element.
C6_RankedDescending ==
    pc = "done" =>
        /\ \A i \in 1..(Len(results) - 1) :
              results[i].total_profit >= results[i + 1].total_profit
        /\ (/\ profit_limits = <<100, 200>>
            /\ loss_limits = <<50>>
            /\ \E i, j \in DOMAIN results :
                  /\ PairOf(results[i]) = <<200, 50>>
                  /\ PairOf(results[j]) = <<100, 50>>
                  /\ results[i].total_profit > results[j].total_profit)
              => PairOf(results[1]) = <<200, 50>>

\* C6 witness: scenario D has been swept and (200, 50) ranks first
C6_Witness ==
    /\ pc = "done"
    /\ profit_limits = <<100, 200>>
    /\ loss_limits = <<50>>
    /\ Len(results) = 2
    /\ PairOf(results[1]) = <<200, 50>>
    /\ results[1].total_profit > results[2].total_profit

\* the results of the successful pairs in the order of the pairs in the
\* Cartesian product
RECURSIVE ResultsInInputOrder(_)
ResultsInInputOrder(k) ==
    IF k = 0 THEN <<>>
    ELSE IF k \in Succeeded
         THEN Append(ResultsInInputOrder(k - 1), futures[k].result)
         ELSE ResultsInInputOrder(k - 1)

\* C7 as stated: the ranked list is the same for every interleaving of
\* worker completions and every max_workers: sorted by total_profit, results
\* of equal total_profit in the order of their pairs in the Cartesian product.
C7_DeterministicRanking ==
    pc = "done" => results = SortResults(ResultsInInputOrder(Len(futures)))

\* C8: failed evaluations do not abort the sweep and run_optimization does
\* not raise; the returned list holds exactly one result for every pair whose
\* evaluation succeeded and none for the failed pairs (the empty list if
\* every pair failed).
C8_FailuresSkipped ==
    /\ pc # "raised"
    /\ pc = "done" =>
          /\ Succeeded \cup Failed = DOMAIN combinations
          /\ Len(results) = Cardinality(Succeeded)
          /\ \A i \in Succeeded :
                Cardinality({k \in DOMAIN results : results[k] = futures[i].result}) = 1
          /\ \A i \in Failed :
                \A k \in DOMAIN results : PairOf(results[k]) # combinations[i]
          /\ Succeeded = {} => results = <<>>

\* C8 witness: a sweep has returned in which some pairs failed and some succeeded
C8_Witness ==
    /\ pc = "done"
    /\ Failed # {}
    /\ Succeeded # {}
    /\ Len(results) = Cardinality(Succeeded)

\* C9: when no evaluation fails, the returned list has
\* |profit_limits| * |loss_limits| results, exactly one for each position of
\* the Cartesian product, and the result of a pair is a function of the trade
\* collection and the pair alone.
C9_EveryPairOnce ==
    (pc = "done" /\ Failed = {}) =>
        /\ Len(results) = Len(profit_limits) * Len(loss_limits)
        /\ \A a \in DOMAIN profit_limits : \A b \in DOMAIN loss_limits :
              /\ Cardinality({k \in DOMAIN results :
                     PairOf(results[k]) = <<profit_limits[a], loss_limits[b]>>}) = 1
              /\ \A k \in DOMAIN results :
                     PairOf(results[k]) = <<profit_limits[a], loss_limits[b]>>
                        => results[k] =
                              _evaluate_parameters(trade_objs, original_trades,
                                  profit_limits[a], loss_limits[b]).result

\* C9 witness: a 2 x 2 grid has been swept without a failure
C9_Witness ==
    /\ pc = "done"
    /\ Failed = {}
    /\ Len(profit_limits) = 2
    /\ Len(loss_limits) = 2
    /\ Len(results) = 4

\* C10: no step of a sweep adds, removes, reorders or modifies a trade of the
\* original collection, and every result's original_trades is the collection
\* the optimizer holds.
C10_OriginalUnchanged ==
    /\ [][trade_objs' = trade_objs /\ original_trades' = original_trades]_vars
    /\ [](\A k \in DOMAIN results : results[k].original_trades = OriginalCollection)

\* C10 witness: a sweep has returned a result in which a limit cut a day
\* short of the profits of its trades
C10_Witness ==
    /\ pc = "done"
    /\ Len(results) >= 2
    /\ \E k \in DOMAIN results :
          /\ results[k].hit_profit_limit_days + results[k].hit_loss_limit_days > 0
          /\ get_total_profit(trade_objs, results[k].trades) # results[k].total_profit

-----------------------------------------------------------------------------
(* Configuration errors, equity curve, monotonicity *)

\* C11 as stated: a pair with a profit limit or loss limit <= 0 is rejected
\* before any simulation: the optimizer produces no OptimizationResult for it.
C11_NonPositiveLimitRejected ==
    \A r \in Produced : r.daily_profit_limit > 0 /\ r.daily_loss_limit > 0

\* C12 as stated: run_optimization on an optimizer built from an empty
\* TradeCollection returns an empty ranked list.
C12_EmptyCollectionEmptyRanking ==
    (pc = "done" /\ original_trades = <<>>) => results = <<>>

\* the first k trade dates in ascending order
FirstDates(k) == {d \in TradeDates : Cardinality({e \in TradeDates : e < d}) < k}

RECURSIVE SumDayProfits(_, _)
SumDayProfits(r, dates) ==
    IF dates = {} THEN 0
    ELSE LET d == CHOOSE x \in dates : TRUE
         IN  r.daily_metrics[d].profit + SumDayProfits(r, dates \ {d})

\* C13: the equity curve of every result starts with 0, has one sample per
\* unique trade date after it, its k-th sample after the leading zero is the
\* sum of the realized profits of the first k days in ascending date order,
\* and its final value is total_profit.
C13_EquityCurve ==
    \A r \in Produced :
        /\ r.equity_curve[1] = 0
        /\ Len(r.equity_curve) = Cardinality(TradeDates) + 1
        /\ \A k \in 1..Cardinality(TradeDates) :
              r.equity_curve[k + 1] = SumDayProfits(r, FirstDates(k))
        /\ r.equity_curve[Len(r.equity_curve)] = r.total_profit

\* C13 witness: a result over two trade days, each with a profit or a loss
C13_Witness ==
    \E r \in Produced :
        /\ Cardinality(TradeDates) = 2
        /\ Len(r.equity_curve) = 3
        /\ \A d \in TradeDates : r.daily_metrics[d].profit # 0

\* the result of the same collection under another profit limit
UnderProfitLimit(r, pl) ==
    _evaluate_parameters(trade_objs, original_trades, pl, r.daily_loss_limit).result

IsPrefix(s, t) == Len(s) <= Len(t) /\ s = SubSeq(t, 1, Len(s))

\* the trades of day d after the ones included in r
LaterProfits(r, d) ==
    SubSeq(DayProfits(d), Len(IncludedOn(r, d)) + 1, Len(DayProfits(d)))

\* C15 as stated: for a fixed day and loss limit and profit limits P1 < P2
\* such that the day hits the profit cap under P1, the day's realized profit
\* under P2 is >= that under P1, and a capped day's realized profit never
\* exceeds the plain sum of the day's trades.
C15_Monotone ==
    \A r \in Produced : \A d \in TradeDates :
        r.daily_metrics[d].hit_profit_limit =>
            /\ \A p2 \in SimProfitLimits :
                  p2 > r.daily_profit_limit =>
                      UnderProfitLimit(r, p2).daily_metrics[d].profit
                          >= r.daily_metrics[d].profit
            /\ r.daily_metrics[d].profit <= SumSeq(DayProfits(d))

\* C15 amended: for P1 < P2 such that the day hits the profit cap under P1,
\* the day under P2 includes every trade it includes under P1, and its
\* realized profit under P2 is >= that under P1 provided no trade of the day
\* after P1's triggering trade has a negative profit; the realized profit of
\* a day that hit the profit cap never exceeds the sum of the profits of the
\* trades included for that day.
C15_MonotoneWhileNoLaterLoss ==
    \A r \in Produced : \A d \in TradeDates :
        r.daily_metrics[d].hit_profit_limit =>
            /\ \A p2 \in SimProfitLimits :
                  p2 > r.daily_profit_limit =>
                      LET r2 == UnderProfitLimit(r, p2)
                      IN  /\ IsPrefix(IncludedOn(r, d), IncludedOn(r2, d))
                          /\ (\A i \in DOMAIN LaterProfits(r, d) :
                                  LaterProfits(r, d)[i] >= 0)
                                => r2.daily_metrics[d].profit >= r.daily_metrics[d].profit
            /\ r.daily_metrics[d].profit
                  <= SumSeq(ProfitsOf(trade_objs, IncludedOn(r, d)))

\* C15 witness: a day capped at 100 that realizes more under the limit 200
C15_Witness ==
    \E r \in Produced : \E d \in TradeDates :
        /\ r.daily_profit_limit = 100
        /\ r.daily_metrics[d].hit_profit_limit
        /\ UnderProfitLimit(r, 200).daily_metrics[d].profit > 100
        /\ Len(IncludedOn(UnderProfitLimit(r, 200), d)) > Len(IncludedOn(r, d))

-----------------------------------------------------------------------------
(* optimizer.py: _calculate_max_drawdown called on its own *)

EquityCurves == UNION {[1..n -> EquityValues] : n \in 1..MaxCurveLen}

CalculateMaxDrawdown(equity_curve) ==
    /\ returned' = [op |-> "_calculate_max_drawdown",
                    arg |-> equity_curve,
                    value |-> _calculate_max_drawdown(equity_curve)]
    /\ UNCHANGED <<trade_objs, original_trades, results, pc, profit_limits,
                   loss_limits, combinations, max_workers, futures, collected>>
    /\ UNCHANGED gui

InitDrawdown ==
    /\ trade_objs = <<>>
    /\ InitOptimizer

NextDrawdown == \E equity_curve \in EquityCurves : CalculateMaxDrawdown(equity_curve)

SpecDrawdown == InitDrawdown /\ [][NextDrawdown]_vars

Max(S) == CHOOSE x \in S : \A y \in S : x >= y

\* the decline of curve e at index i from the highest sample up to i
DeclineAt(e, i) == Max({e[j] : j \in 1..i}) - e[i]

\* C14: _calculate_max_drawdown returns, for a non-empty equity curve e, the
\* maximum over the indices i of (max of e up to i) - e[i]; the result is
\* >= 0, and it is 0 if and only if e is non-decreasing throughout.
C14_MaxDrawdown ==
    returned.op = "_calculate_max_drawdown" =>
        LET e == returned.arg
        IN  /\ returned.value = Max({DeclineAt(e, i) : i \in DOMAIN e})
            /\ returned.value >= 0
            /\ returned.value = 0 <=> \A i \in 1..(Len(e) - 1) : e[i] <= e[i + 1]

\* C14 witness: a curve that rises above its first sample and then falls
C14_Witness ==
    /\ returned.op = "_calculate_max_drawdown"
    /\ Len(returned.arg) >= 3
    /\ returned.arg[2] > returned.arg[1]
    /\ returned.arg[3] < returned.arg[2]
    /\ returned.value = returned.arg[2] - returned.arg[3]

-----------------------------------------------------------------------------
(* trade_model.py: a TradeCollection built from any list, grown by add_trade
   and read by its query methods; original_trades is its list self.trades *)

NewTrade(trade_id, entry_time, profit_usd) ==
    [trade_id |-> trade_id, entry_time |-> entry_time,
     profit_usd |-> profit_usd, numeric |-> TRUE]

\* the lists of n Trade objects in any order of entry_time
AnyTradeHeaps(n) ==
    {[i \in 1..n |-> NewTrade(i, e[i], p[i])] :
        e \in [1..n -> CollDates \X CollSlots],
        p \in [1..n -> CollProfits]}

UnchangedOptimizer ==
    /\ UNCHANGED <<results, pc, profit_limits, loss_limits, combinations,
                   max_workers, futures, collected>>
    /\ UNCHANGED gui

Query(op, arg, value) ==
    /\ returned' = [op |-> op, arg |-> arg, value |-> value]
    /\ UNCHANGED <<trade_objs, original_trades>>
    /\ UnchangedOptimizer

AddTrade(entry_time, profit_usd) ==
    /\ Len(trade_objs) < MaxCollTrades
    /\ trade_objs' = Append(trade_objs,
                            NewTrade(Len(trade_objs) + 1, entry_time, profit_usd))
    /\ original_trades' = add_trade(trade_objs', original_trades, Len(trade_objs'))
    /\ returned' = [op |-> "add_trade"]
    /\ UnchangedOptimizer

GetTradesByDate(date) ==
    Query("get_trades_by_date", date,
          get_trades_by_date(trade_objs, original_trades, Midnight(date)))

GetDateRange ==
    Query("get_date_range", <<>>, get_date_range(trade_objs, original_trades))

GetUniqueDates ==
    Query("get_unique_dates", <<>>, get_unique_dates(trade_objs, original_trades))

GetTotalProfit ==
    Query("get_total_profit", <<>>, get_total_profit(trade_objs, original_trades))

GetWinRate ==
    Query("get_win_rate", <<>>, get_win_rate(trade_objs, original_trades))

GetProfitFactor ==
    Query("get_profit_factor", <<>>, get_profit_factor(trade_objs, original_trades))

InitColl ==
    /\ trade_objs \in UNION {AnyTradeHeaps(n) : n \in 0..MaxCollTrades}
    /\ original_trades = TradeCollectionInit(trade_objs, [i \in DOMAIN trade_objs |-> i])
    /\ results = <<>>
    /\ pc = "idle"
    /\ profit_limits = <<>>
    /\ loss_limits = <<>>
    /\ combinations = <<>>
    /\ max_workers = DefaultMaxWorkers
    /\ futures = <<>>
    /\ collected = {}
    /\ returned = NoCall
    /\ NoGui

NextColl ==
    \/ \E entry_time \in CollDates \X CollSlots, profit_usd \in CollProfits :
            AddTrade(entry_time, profit_usd)
    \/ \E date \in CollDates \X ({0} \cup CollSlots) : GetTradesByDate(date)
    \/ GetDateRange
    \/ GetUniqueDates
    \/ GetTotalProfit
    \/ GetWinRate
    \/ GetProfitFactor

SpecColl == InitColl /\ [][NextColl]_vars

-----------------------------------------------------------------------------
(* Properties of the TradeCollection *)

Refs(trades) == {trades[i] : i \in DOMAIN trades}

NoDuplicates(s) == \A i, j \in DOMAIN s : i # j => s[i] # s[j]

\* no trade stands before one with an earlier entry_time
AscendingEntryTime(trades) ==
    \A i, j \in DOMAIN trades :
        i < j => ~EntryTimeLess(trade_objs[trades[j]], trade_objs[trades[i]])

\* what the last query returned, measured against the collection it read
C16_QueriesExact ==
    /\ returned.op = "get_unique_dates" =>
         /\ \A i, j \in DOMAIN returned.value :
                i < j => returned.value[i] < returned.value[j]
         /\ Refs(returned.value) =
                {trade_date(trade_objs[ref]) : ref \in Refs(original_trades)}
    /\ returned.op = "get_trades_by_date" =>
         /\ Refs(returned.value) =
                {ref \in Refs(original_trades) :
                    trade_date(trade_objs[ref]) = returned.arg[1]}
         /\ NoDuplicates(returned.value)
         /\ AscendingEntryTime(returned.value)

\* C16: get_unique_dates() is strictly ascending, duplicate-free and holds
\* exactly the trade_date values of the trades; get_trades_by_date(d) returns
\* exactly the trades whose trade_date is d, in ascending entry_time order,
\* and the call leaves the collection unchanged.
C16_DateQueries ==
    /\ []C16_QueriesExact
    /\ [][returned'.op \in {"get_unique_dates", "get_trades_by_date"}
            => trade_objs' = trade_objs /\ original_trades' = original_trades]_vars

\* C16 witness: a list given out of order, two of its trades on the asked
\* date and a third on another date
C16_Witness ==
    /\ returned.op = "get_trades_by_date"
    /\ Len(returned.value) = 2
    /\ Len(original_trades) = 3
    /\ returned.value[1] > returned.value[2]

\* C17: after construction from any list and after any sequence of add_trade
\* calls, trades is in ascending entry_time order and holds exactly the
\* constructed trades plus every added trade, none lost or duplicated.
C17_SortedAndComplete ==
    /\ AscendingEntryTime(original_trades)
    /\ Refs(original_trades) = DOMAIN trade_objs
    /\ NoDuplicates(original_trades)

\* C17 witness: the added trade is earlier than a trade already there
C17_Witness ==
    /\ returned.op = "add_trade"
    /\ Len(original_trades) >= 2
    /\ original_trades[Len(original_trades)] # Len(trade_objs)

Profitable == {ref \in Refs(original_trades) : trade_objs[ref].profit_usd > 0}

RECURSIVE SumProfits(_)
SumProfits(refs) ==
    IF refs = {} THEN 0
    ELSE LET ref == CHOOSE x \in refs : TRUE
         IN  trade_objs[ref].profit_usd + SumProfits(refs \ {ref})

\* C18: get_profit_factor() is +infinity exactly when there is a profitable
\* trade and the non-profitable profits sum to zero; it is 0 exactly when
\* there is no profitable trade; otherwise it is the sum of the positive
\* profits over the absolute sum of the negative ones.
C18_ProfitFactor ==
    returned.op = "get_profit_factor" =>
        LET pf == returned.value
            losses == SumProfits(Refs(original_trades) \ Profitable)
            is_zero == ~pf.inf /\ pf.num = 0 /\ pf.den # 0
        IN  /\ pf.inf <=> (Profitable # {} /\ losses = 0)
            /\ is_zero <=> Profitable = {}
            /\ (~pf.inf /\ ~is_zero) =>
                   /\ pf.num = SumProfits(Profitable)
                   /\ pf.den = -losses
                   /\ pf.den > 0

\* C18 witness: profitable trades and a break-even trade, no loss
C18_Witness ==
    /\ returned.op = "get_profit_factor"
    /\ returned.value.inf
    /\ \E ref \in Refs(original_trades) : trade_objs[ref].profit_usd = 0

\* C19: on an empty collection every query returns its default: win rate 0
\* (a quotient that was computed, not a division by zero), date range
\* (None, None), no unique dates, total profit 0, profit factor 0, no trades
\* of any date.
C19_EmptyDefaults ==
    original_trades = <<>> =>
        /\ returned.op = "get_win_rate" =>
               returned.value.num = 0 /\ returned.value.den # 0
        /\ returned.op = "get_date_range" => returned.value.none
        /\ returned.op = "get_unique_dates" => returned.value = <<>>
        /\ returned.op = "get_total_profit" => returned.value = 0
        /\ returned.op = "get_profit_factor" =>
               ~returned.value.inf /\ returned.value.num = 0 /\ returned.value.den # 0
        /\ returned.op = "get_trades_by_date" => returned.value = <<>>

\* C19 witness: the win rate of the empty collection was asked for
C19_Witness ==
    /\ original_trades = <<>>
    /\ returned.op = "get_win_rate"

-----------------------------------------------------------------------------
(* The best result *)

\* C20: after run_optimization, get_best_result() returns a result whose
\* total_profit is the maximum over get_results(), the very result that
\* stands first in the ranked list; it returns None exactly when the list
\* is empty.
C20_BestIsFirst ==
    (pc = "done" /\ returned.op = "get_best_result") =>
        /\ returned.value.none <=> results = <<>>
        /\ ~returned.value.none =>
              /\ \A k \in DOMAIN results :
                     returned.value.result.total_profit >= results[k].total_profit
              /\ returned.value.result = results[1]

\* C20 witness: the best result of a ranking whose first two results tie
C20_Witness ==
    /\ pc = "done"
    /\ returned.op = "get_best_result"
    /\ Len(results) >= 2
    /\ results[1].total_profit = results[2].total_profit
    /\ ~returned.value.none

-----------------------------------------------------------------------------
(* trade_model.py: OptimizationResult.id; optimizer.py: get_result_by_id *)

\* format(x, ".0f") of a positive amount x given in tenths: the nearest
\* integer, a tie going to the even neighbour
Format0f(tenths) ==
    LET q == tenths \div TenthsPerUSD
        twice == 2 * (tenths % TenthsPerUSD)
    IN  IF twice < TenthsPerUSD THEN q
        ELSE IF twice > TenthsPerUSD THEN q + 1
        ELSE IF q % 2 = 0 THEN q ELSE q + 1

\* "PL<a>_LL<b>" is kept as the pair <<a, b>> of the two printed integers
id(r) == <<Format0f(r.daily_profit_limit), Format0f(r.daily_loss_limit)>>

\* lines 173-178: the first result whose id is result_id, else None
RECURSIVE get_result_by_id(_, _)
get_result_by_id(res, result_id) ==
    IF res = <<>> THEN [none |-> TRUE, result |-> NoResult]
    ELSE IF id(Head(res)) = result_id THEN [none |-> FALSE, result |-> Head(res)]
    ELSE get_result_by_id(Tail(res), result_id)

\* the ids a caller asks for: those of the grid and one of no result
ResultIds ==
    {<<Format0f(pl), Format0f(ll)>> : pl \in FineProfitLimits, ll \in FineLossLimits}
    \cup {<<0, 0>>}

GetResultById(result_id) ==
    /\ pc = "done"
    /\ returned' = [op |-> "get_result_by_id", arg |-> result_id,
                    value |-> get_result_by_id(results, result_id)]
    /\ UNCHANGED <<trade_objs, original_trades, results, pc, profit_limits,
                   loss_limits, combinations, max_workers, futures, collected>>
    /\ UNCHANGED gui

\* a sweep over a grid of distinct pairs with non-integer limits
RunOptimizationFine ==
    \E pls \in DistinctSeqs(FineProfitLimits), lls \in DistinctSeqs(FineLossLimits) :
        Call(pls, lls, DefaultMaxWorkers)

InitLookup ==
    /\ trade_objs \in UNION {TradeHeaps(n, {1}, FineProfitValues, FALSE) :
                                n \in 0..MaxSweepTrades}
    /\ InitOptimizer

NextLookup ==
    \/ RunOptimizationFine
    \/ \E i \in DOMAIN futures : WorkerStart(i)
    \/ \E i \in DOMAIN futures : WorkerFinish(i)
    \/ \E i \in DOMAIN futures : Collect(i)
    \/ SortAndReturn
    \/ \E result_id \in ResultIds : GetResultById(result_id)

SpecLookup == InitLookup /\ [][NextLookup]_vars

\* C21: after a sweep over distinct pairs, get_result_by_id(r.id) returns r
\* itself for every result r of get_results(), and an id matching no result
\* returns None.
C21_LookupRoundTrips ==
    pc = "done" =>
        /\ \A k \in DOMAIN results :
               get_result_by_id(results, id(results[k])) =
                   [none |-> FALSE, result |-> results[k]]
        /\ returned.op = "get_result_by_id" =>
               (returned.value.none <=>
                   \A k \in DOMAIN results : id(results[k]) # returned.arg)

-----------------------------------------------------------------------------
(* The worker pool *)

\* C23: at every moment of a sweep at most max_workers evaluations are in
\* progress, whatever the size of the grid; every submitted pair is
\* nevertheless evaluated in the end and run_optimization returns.
C23_BoundedPoolCompletes ==
    /\ [](RunningCount <= max_workers)
    /\ (pc = "collecting") ~>
           (pc = "done" /\ \A i \in DOMAIN futures : futures[i].state = "finished")

\* C23 witness: one worker, a grid of four pairs, one evaluation in
\* progress while two pairs wait
C23_Witness ==
    /\ max_workers = 1
    /\ Len(futures) = 4
    /\ RunningCount = 1
    /\ Cardinality({i \in DOMAIN futures : futures[i].state = "pending"}) >= 2

-----------------------------------------------------------------------------
(* utils.py: generate_range on floats.  A float is kept as a non-negative
   integer with at most MantissaBits significant bits (a Python float has 53);
   a sum is rounded to the nearest such number, a tie to the even mantissa. *)

RECURSIVE Pow2(_)
Pow2(n) == IF n = 0 THEN 1 ELSE 2 * Pow2(n - 1)

\* the spacing of the floats around x
RECURSIVE Ulp(_, _)
Ulp(x, scale) == IF x < Pow2(MantissaBits) * scale THEN scale ELSE Ulp(x, 2 * scale)

RoundToFloat(x) ==
    LET scale == Ulp(x, 1)
        q == x \div scale
        twice == 2 * (x % scale)
    IN  IF twice < scale THEN q * scale
        ELSE IF twice > scale THEN (q + 1) * scale
        ELSE IF q % 2 = 0 THEN q * scale ELSE (q + 1) * scale

\* current += step
FloatAdd(a, b) == RoundToFloat(a + b)

\* the floats up to max
Floats(max) == {x \in 0..max : RoundToFloat(x) = x}

\* lines 22-27; a loop whose current no longer grows never ends: hangs
RECURSIVE RangeLoop(_, _, _, _)
RangeLoop(result, current, end, step) ==
    IF ~(current <= end) THEN [hangs |-> FALSE, value |-> result]
    ELSE IF FloatAdd(current, step) = current
         THEN [hangs |-> TRUE, value |-> Append(result, current)]
         ELSE RangeLoop(Append(result, current), FloatAdd(current, step), end, step)

generate_range(start, end, step) == RangeLoop(<<>>, start, end, step)

\* the arguments tried: every float up to twice the first one that has lost
\* the unit digit
RangeValues == Floats(Pow2(MantissaBits + 1))

GenerateRange(start, end, step) ==
    /\ returned' = [op |-> "generate_range", arg |-> <<start, end, step>>,
                    value |-> generate_range(start, end, step)]
    /\ UNCHANGED <<trade_objs, original_trades, results, pc, profit_limits,
                   loss_limits, combinations, max_workers, futures, collected>>
    /\ UNCHANGED gui

InitRange ==
    /\ trade_objs = <<>>
    /\ InitOptimizer

NextRange == \E start, end, step \in RangeValues : GenerateRange(start, end, step)

SpecRange == InitRange /\ [][NextRange]_vars

\* C30: generate_range(start, end, step) terminates for every step > 0 and
\* returns exactly the values start + k*step (k = 0, 1, ...) that are <= end,
\* in ascending order, the empty list when start > end; for start > 0 and
\* start <= end the list is therefore non-empty, positive and starts at start.
C30_RangeTerminatesExact ==
    (returned.op = "generate_range" /\ returned.arg[3] > 0) =>
        LET start == returned.arg[1]
            end == returned.arg[2]
            step == returned.arg[3]
            range == returned.value
            count == IF start > end THEN 0 ELSE (end - start) \div step + 1
        IN  /\ ~range.hangs
            /\ Len(range.value) = count
            /\ \A k \in 1..Len(range.value) : range.value[k] = start + (k - 1) * step
            /\ (start > 0 /\ start <= end) =>
                   /\ range.value # <<>>
                   /\ range.value[1] = start
                   /\ \A k \in 1..Len(range.value) : range.value[k] > 0

-----------------------------------------------------------------------------
(* gui/optimization_panel.py, gui/main_window.py, gui/results_panel.py: the
   user edits the fields, previews, starts runs and sorts the results table,
   while the background thread of a run drives the optimizer *)

\* the text of an entry field: a number, or text that float() rejects
Text(v) == [number |-> TRUE, value |-> v]
InvalidText == [number |-> FALSE, value |-> 0]

FieldNames == {"profit_min", "profit_max", "profit_step",
               "loss_min", "loss_max", "loss_step"}

\* what the user types, and where
FieldTexts ==
    [profit_min |-> {InvalidText, Text(0), Text(1), Text(2)},
     profit_max |-> {Text(1), Text(2)}]
EditedFields == DOMAIN FieldTexts
PanelProfitValues == {-1, 1}

\* the fields after a data file was loaded and previewed
LoadedFields ==
    [profit_min |-> Text(1), profit_max |-> Text(2), profit_step |-> Text(1),
     loss_min |-> Text(1), loss_max |-> Text(1), loss_step |-> Text(1)]

\* lines 138-199: the panel after _preview_parameters
_preview_parameters(p) ==
    LET f == p.fields
        v == [n \in FieldNames |-> f[n].value]
        profit_range == generate_range(v.profit_min, v.profit_max, v.profit_step)
        loss_range == generate_range(v.loss_min, v.loss_max, v.loss_step)
    IN  IF \E n \in FieldNames : ~f[n].number
        THEN [p EXCEPT !.message = "invalid number"]
        ELSE IF v.profit_min <= 0 \/ v.profit_max <= 0 \/ v.profit_step <= 0
        THEN [p EXCEPT !.message = "profit not positive"]
        ELSE IF v.loss_min <= 0 \/ v.loss_max <= 0 \/ v.loss_step <= 0
        THEN [p EXCEPT !.message = "loss not positive"]
        ELSE IF v.profit_min > v.profit_max
        THEN [p EXCEPT !.message = "profit min above max"]
        ELSE IF v.loss_min > v.loss_max
        THEN [p EXCEPT !.message = "loss min above max"]
        ELSE IF profit_range.hangs \/ loss_range.hangs
        THEN [p EXCEPT !.hung = TRUE]
        ELSE [p EXCEPT !.has_limits = TRUE,
                       !.profit_limits = profit_range.value,
                       !.loss_limits = loss_range.value,
                       !.message = "preview"]

\* lines 201-235: the panel after _run_optimization
_run_optimization(p, optimizer) ==
    IF p.is_running THEN [p EXCEPT !.message = "already running"]
    ELSE LET q == IF ~p.has_limits THEN _preview_parameters(p) ELSE p
         IN  IF q.hung THEN q
             ELSE IF ~q.has_limits THEN [q EXCEPT !.message = "no parameters"]
             ELSE IF ~optimizer THEN [q EXCEPT !.message = "load data first"]
             ELSE [q EXCEPT !.is_running = TRUE,
                            !.run_button = "disabled",
                            !.preview_button = "disabled",
                            !.progress_var = 0,
                            !.threads = @ + 1,
                            !.thread_pc = "started"]

\* the thread's function without try/finally: the callback is scheduled
\* only when main_window.run_optimization returns
ThreadExitNoFinally(p, exit) ==
    [p EXCEPT !.threads = @ - 1,
              !.thread_pc = "none",
              !.thread_exit = exit,
              !.after_queue = IF exit = "returned" THEN @ + 1 ELSE @]

\* lines 225-232: however main_window.run_optimization ends, the thread
\* schedules _optimization_finished on the main loop
ThreadExit(p, exit) ==
    [p EXCEPT !.threads = @ - 1,
              !.thread_pc = "none",
              !.thread_exit = exit,
              !.after_queue = @ + 1]

\* lines 237-243
_optimization_finished(p) ==
    [p EXCEPT !.is_running = FALSE,
              !.run_button = "normal",
              !.preview_button = "normal",
              !.progress_var = 100,
              !.after_queue = @ - 1]

UnchangedSweep ==
    UNCHANGED <<trade_objs, original_trades, results, pc, profit_limits, loss_limits,
                combinations, max_workers, futures, collected, returned>>

\* the user types into a field
EditField(name, text) ==
    /\ ~optimization_panel.hung
    /\ optimization_panel' = [optimization_panel EXCEPT !.fields[name] = text]
    /\ UNCHANGED <<main_window, results_panel, data_processor>>
    /\ UnchangedSweep

\* the preview button
PreviewClicked ==
    /\ ~optimization_panel.hung
    /\ optimization_panel.preview_button = "normal"
    /\ optimization_panel' = _preview_parameters(optimization_panel)
    /\ UNCHANGED <<main_window, results_panel, data_processor>>
    /\ UnchangedSweep

\* _run_optimization is called (the run button, or a caller)
RunClicked ==
    /\ ~optimization_panel.hung
    /\ optimization_panel' = _run_optimization(optimization_panel, main_window.optimizer)
    /\ UNCHANGED <<main_window, results_panel, data_processor>>
    /\ UnchangedSweep

\* main_window.py lines 191-202 in the background thread: an exception of
\* lines 197-198 leaves the method; otherwise the optimizer starts a sweep
\* with a new results list, and the table keeps the list it was given
ThreadRun ==
    /\ optimization_panel.thread_pc = "started"
    /\ \/ /\ optimization_panel' = ThreadExit(optimization_panel, "raised")
          /\ UNCHANGED <<main_window, results_panel, data_processor>>
          /\ UnchangedSweep
       \/ /\ main_window.optimizer
          /\ pc \in {"idle", "done"}
          /\ Submit(optimization_panel.profit_limits, optimization_panel.loss_limits,
                    DefaultMaxWorkers)
          /\ optimization_panel' = [optimization_panel EXCEPT !.thread_pc = "sweeping"]
          /\ results_panel' = IF results_panel.results = "optimizer.results"
                              THEN [results |-> "own", list |-> results]
                              ELSE results_panel
          /\ UNCHANGED <<main_window, data_processor>>

\* main_window.py lines 202-210 and the thread's finally: update_results
\* keeps the very list the optimizer returned (results_panel.py line 157)
ThreadReturn ==
    /\ optimization_panel.thread_pc = "sweeping"
    /\ pc = "done"
    /\ results_panel' = [results |-> "optimizer.results", list |-> <<>>]
    /\ optimization_panel' = ThreadExit(optimization_panel, "returned")
    /\ UNCHANGED <<main_window, data_processor>>
    /\ UnchangedSweep

\* the main loop runs the scheduled callback
OptimizationFinished ==
    /\ ~optimization_panel.hung
    /\ optimization_panel.after_queue > 0
    /\ optimization_panel' = _optimization_finished(optimization_panel)
    /\ UNCHANGED <<main_window, results_panel, data_processor>>
    /\ UnchangedSweep

\* results_panel.py lines 191-199: column -> reverse
sort_map ==
    [total_profit |-> TRUE, profit_factor |-> TRUE, win_rate |-> TRUE,
     trade_count |-> TRUE, max_drawdown |-> FALSE,
     daily_profit_limit |-> TRUE, daily_loss_limit |-> TRUE]

\* the columns asked for: those of sort_map and one it does not know
SortColumns == DOMAIN sort_map \cup {"id"}

\* a < b on floats kept as fractions, float('inf') above every fraction
FractionLess(a, b) == a.num * b.den < b.num * a.den

KeyLess(attr, a, b) ==
    IF attr = "win_rate" THEN FractionLess(a.win_rate, b.win_rate)
    ELSE IF attr = "profit_factor"
    THEN /\ ~a.profit_factor.inf
         /\ b.profit_factor.inf \/ FractionLess(a.profit_factor, b.profit_factor)
    ELSE a[attr] < b[attr]

\* list.sort(key=attr, reverse=reverse): stable in both directions
RECURSIVE InsertByKey(_, _, _, _)
InsertByKey(attr, reverse, sorted, r) ==
    IF sorted = <<>> THEN <<r>>
    ELSE IF (IF reverse THEN KeyLess(attr, Head(sorted), r)
                        ELSE KeyLess(attr, r, Head(sorted)))
         THEN <<r>> \o sorted
         ELSE <<Head(sorted)>> \o InsertByKey(attr, reverse, Tail(sorted), r)

RECURSIVE SortByKeyFrom(_, _, _, _)
SortByKeyFrom(attr, reverse, sorted, rest) ==
    IF rest = <<>> THEN sorted
    ELSE SortByKeyFrom(attr, reverse, InsertByKey(attr, reverse, sorted, Head(rest)),
                       Tail(rest))

\* results_panel.py lines 187-206: self.results is sorted in place; it is the
\* optimizer's list whenever update_results was handed that list
SortClicked(sort_by) ==
    /\ ~optimization_panel.hung
    /\ LET shared == results_panel.results = "optimizer.results"
           view == IF shared THEN results ELSE results_panel.list
           sorted == SortByKeyFrom(sort_by, sort_map[sort_by], <<>>, view)
       IN  IF view = <<>> \/ sort_by \notin DOMAIN sort_map
           THEN UNCHANGED <<results, results_panel>>
           ELSE IF shared
           THEN results' = sorted /\ UNCHANGED results_panel
           ELSE results_panel' = [results_panel EXCEPT !.list = sorted]
                /\ UNCHANGED results
    /\ UNCHANGED <<trade_objs, original_trades, pc, profit_limits, loss_limits,
                   combinations, max_workers, futures, collected, returned,
                   main_window, optimization_panel, data_processor>>

\* lines 14-24 of optimization_panel.py: the panel after construction
NewPanel ==
    [fields |-> LoadedFields, has_limits |-> FALSE,
     profit_limits |-> <<>>, loss_limits |-> <<>>,
     is_running |-> FALSE, run_button |-> "normal", preview_button |-> "normal",
     progress_var |-> 0, threads |-> 0, thread_pc |-> "none",
     thread_exit |-> "none", after_queue |-> 0, message |-> "none", hung |-> FALSE]

\* the window before a data file is loaded, or after one of two trades was loaded
\* (main_window.py lines 169-173: the optimizer exists and the panel has
\* previewed its fields)
InitPanel ==
    /\ \/ /\ trade_objs = <<>>
          /\ main_window = [optimizer |-> FALSE]
          /\ optimization_panel = NewPanel
       \/ /\ trade_objs \in TradeHeaps(2, {1}, PanelProfitValues, FALSE)
          /\ main_window = [optimizer |-> TRUE]
          /\ optimization_panel = _preview_parameters(NewPanel)
    /\ results_panel = [results |-> "own", list |-> <<>>]
    /\ data_processor = NewProcessor
    /\ original_trades = [i \in DOMAIN trade_objs |-> i]
    /\ results = <<>>
    /\ pc = "idle"
    /\ profit_limits = <<>>
    /\ loss_limits = <<>>
    /\ combinations = <<>>
    /\ max_workers = DefaultMaxWorkers
    /\ futures = <<>>
    /\ collected = {}
    /\ returned = NoCall

NextPanel ==
    \/ \E name \in EditedFields : \E text \in FieldTexts[name] : EditField(name, text)
    \/ PreviewClicked
    \/ RunClicked
    \/ ThreadRun
    \/ \E i \in DOMAIN futures : WorkerStart(i)
    \/ \E i \in DOMAIN futures : WorkerFinish(i)
    \/ \E i \in DOMAIN futures : Collect(i)
    \/ SortAndReturn
    \/ ThreadReturn
    \/ OptimizationFinished
    \/ \E sort_by \in SortColumns : SortClicked(sort_by)

SpecPanel == InitPanel /\ [][NextPanel]_vars

\* the background thread and the main loop run whenever they can
SpecPanelFair ==
    /\ SpecPanel
    /\ Fairness
    /\ WF_vars(ThreadRun)
    /\ WF_vars(ThreadReturn)
    /\ WF_vars(OptimizationFinished)

-----------------------------------------------------------------------------
(* Properties of the user interface *)

\* C22: during a sweep progress is reported to the observer (the panel's
\* progress_var) at least once per completed pair, the reported progress
\* never decreases, and when all pairs have completed the report is complete.
C22_ProgressPerPair ==
    /\ [][(collected' # collected /\ collected' # {}) =>
            optimization_panel'.progress_var > optimization_panel.progress_var]_vars
    /\ [][(pc = "collecting" /\ pc' = "collecting") =>
            optimization_panel'.progress_var >= optimization_panel.progress_var]_vars
    /\ []((pc = "done" /\ optimization_panel.thread_pc = "sweeping") =>
            optimization_panel.progress_var = 100)

\* C27: after run_optimization has returned, get_results() stays ordered by
\* total_profit descending through update_results and any _sort_results
\* calls, which leave the optimizer's list unchanged.
C27_RankingSurvivesPanel ==
    /\ [](pc = "done" =>
            \A k \in 1..(Len(results) - 1) :
                results[k].total_profit >= results[k + 1].total_profit)
    /\ [][(pc = "done" /\ pc' = "done") => results' = results]_vars

\* C28: while is_running no second background thread is started, and every
\* run that set is_running reaches _optimization_finished (is_running False
\* again, both buttons enabled), also when main_window.run_optimization
\* raises.
C28_NeverLocked ==
    /\ [](optimization_panel.threads <= 1)
    /\ [](~optimization_panel.is_running =>
            /\ optimization_panel.run_button = "normal"
            /\ optimization_panel.preview_button = "normal")
    /\ optimization_panel.is_running ~> ~optimization_panel.is_running

\* C28 witness: a run whose thread ended by an exception has finished, and
\* a further run was refused while it was running
C28_Witness ==
    /\ optimization_panel.thread_exit = "raised"
    /\ ~optimization_panel.is_running
    /\ optimization_panel.run_button = "normal"
    /\ optimization_panel.message = "already running"

\* the list generate_range gives for the fields min, max, step
FieldRange(f, min, max, step) ==
    generate_range(f[min].value, f[max].value, f[step].value).value

\* C29: every sweep started by _run_optimization uses the limit lists
\* generated from the values that are in the fields when the run is started.
C29_RunUsesCurrentFields ==
    /\ [][(~optimization_panel.is_running /\ optimization_panel'.is_running) =>
            LET f == optimization_panel.fields
            IN  /\ \A n \in FieldNames : f[n].number
                /\ optimization_panel'.profit_limits =
                       FieldRange(f, "profit_min", "profit_max", "profit_step")
                /\ optimization_panel'.loss_limits =
                       FieldRange(f, "loss_min", "loss_max", "loss_step")]_vars
    /\ [][(optimization_panel.thread_pc = "started" /\
           optimization_panel'.thread_pc = "sweeping") =>
            /\ profit_limits' = optimization_panel.profit_limits
            /\ loss_limits' = optimization_panel.loss_limits]_vars

-----------------------------------------------------------------------------
(* data_processor.py: DataProcessor; the rows of its DataFrame are the
   objects of trade_objs, with the two excursion columns *)

\* the frames of n rows in ascending entry time
ProcessorFrames(n) ==
    {[i \in 1..n |-> [trade_id |-> i,
                      entry_time |-> <<d[i], i>>,
                      profit_usd |-> row[i][1],
                      numeric |-> TRUE,
                      max_profit_usd |-> row[i][2],
                      max_loss_usd |-> row[i][3]]] :
        d \in {dd \in [1..n -> ProcessorDays] : \A i \in 2..n : dd[i - 1] <= dd[i]},
        row \in [1..n -> ProcessorRows]}

Abs(x) == IF x < 0 THEN -x ELSE x

\* int(100 * processed / total_dates)
Percent(processed, total) == (100 * processed) \div total

\* lines 41-65: the frame grouped by date, rows in ascending entry time
PreparedDays(proc, objs, trades, dates) ==
    [trades |-> [none |-> FALSE, rows |-> trades],
     daily_trades |->
        [none |-> FALSE,
         days |-> [date \in {dates[k] : k \in DOMAIN dates} |->
                      _sort_trades(objs, get_trades_by_date(objs, trades, date))]],
     progress_signal |-> [k \in DOMAIN dates |-> Percent(k, Len(dates))],
     status_signal |-> <<"daily trades prepared">>]

\* lines 28-65: the processor after set_trades; an empty frame leaves
\* daily_trades as it was and emits nothing
set_trades(proc, objs, trades) ==
    IF trades = <<>>
    THEN [proc EXCEPT !.trades = [none |-> FALSE, rows |-> trades],
                      !.progress_signal = <<>>,
                      !.status_signal = <<>>]
    ELSE PreparedDays(proc, objs, trades, get_unique_dates(objs, trades))

\* validation of the profit limit alone, lines 82-84 missing
LimitsRejectedProfitOnly(daily_profit_limit, daily_loss_limit) ==
    daily_profit_limit <= 0

\* lines 78-84
LimitsRejected(daily_profit_limit, daily_loss_limit) ==
    daily_profit_limit <= 0 \/ daily_loss_limit <= 0

\* lines 137-210: the row's trade_result appended and the counters updated
RowResult(a, trade, skipped, hit_profit, hit_loss, adjusted) ==
    [a EXCEPT
       !.profit_limit_triggered = @ \/ hit_profit,
       !.loss_limit_triggered = @ \/ hit_loss,
       !.daily_cumulative_profit = IF skipped THEN @ ELSE @ + adjusted,
       !.day_trades = Append(@, [trade_id |-> trade.trade_id,
                                 profit_usd |-> adjusted,
                                 original_profit_usd |-> trade.profit_usd,
                                 executed |-> ~skipped,
                                 reason |-> IF skipped THEN "day already triggered"
                                            ELSE IF hit_profit THEN "profit limit"
                                            ELSE IF hit_loss THEN "loss limit"
                                            ELSE "normal"]),
       !.trade_details = Append(@, [trade_id |-> trade.trade_id,
                                    profit_usd |-> adjusted,
                                    original_profit_usd |-> trade.profit_usd,
                                    executed |-> ~skipped,
                                    reason |-> IF skipped THEN "day already triggered"
                                               ELSE IF hit_profit THEN "profit limit"
                                               ELSE IF hit_loss THEN "loss limit"
                                               ELSE "normal"]),
       !.executed_trades = IF skipped THEN @ ELSE @ + 1,
       !.winning_trades = IF ~skipped /\ adjusted > 0 THEN @ + 1 ELSE @,
       !.gross_profit = IF ~skipped /\ adjusted > 0 THEN @ + adjusted ELSE @,
       !.losing_trades = IF ~skipped /\ adjusted < 0 THEN @ + 1 ELSE @,
       !.gross_loss = IF ~skipped /\ adjusted < 0 THEN @ - adjusted ELSE @]

\* lines 133-199: one row of the day; a is the running state of the call.
\* The cumulative profit becomes the limit on a trigger (lines 171, 186),
\* which is the old value plus the adjusted profit
ProcessRow(a, trade, daily_profit_limit, daily_loss_limit) ==
    LET skipped == a.profit_limit_triggered \/ a.loss_limit_triggered
        hit_profit == /\ ~skipped
                      /\ trade.profit_usd > 0
                      /\ a.daily_cumulative_profit + trade.max_profit_usd
                            >= daily_profit_limit
        hit_loss == /\ ~skipped
                    /\ ~hit_profit
                    /\ trade.profit_usd < 0
                    /\ a.daily_cumulative_profit - Abs(trade.max_loss_usd)
                            <= -daily_loss_limit
    IN  RowResult(a, trade, skipped, hit_profit, hit_loss,
                  IF skipped THEN 0
                  ELSE IF hit_profit THEN daily_profit_limit - a.daily_cumulative_profit
                  ELSE IF hit_loss THEN -daily_loss_limit - a.daily_cumulative_profit
                  ELSE trade.profit_usd)

RECURSIVE RowLoop(_, _, _, _, _)
RowLoop(a, objs, day_trades, daily_profit_limit, daily_loss_limit) ==
    IF day_trades = <<>> THEN a
    ELSE RowLoop(ProcessRow(a, objs[Head(day_trades)], daily_profit_limit,
                            daily_loss_limit),
                 objs, Tail(day_trades), daily_profit_limit, daily_loss_limit)

\* lines 212-244: the end of a day whose rows left the state b
DayEnd(b, day_date, equity, total_dates) ==
    [b EXCEPT
       !.equity = equity,
       !.max_equity = IF equity > @ THEN equity ELSE @,
       !.max_drawdown = IF Max({b.max_equity, equity}) - equity > @
                        THEN Max({b.max_equity, equity}) - equity ELSE @,
       !.equity_curve = Append(@, [date |-> day_date, equity |-> equity,
                                   drawdown |-> Max({b.max_equity, equity}) - equity]),
       !.profitable_days = IF b.daily_cumulative_profit > 0 THEN @ + 1 ELSE @,
       !.loss_days = IF b.daily_cumulative_profit < 0 THEN @ + 1 ELSE @,
       !.profit_limit_triggered_days = IF b.profit_limit_triggered THEN @ + 1 ELSE @,
       !.loss_limit_triggered_days = IF b.loss_limit_triggered THEN @ + 1 ELSE @,
       !.daily_results =
           Append(@, [date |-> day_date,
                      trades |-> b.day_trades,
                      daily_profit |-> b.daily_cumulative_profit,
                      cumulative_profit |-> equity,
                      profit_limit_triggered |-> b.profit_limit_triggered,
                      loss_limit_triggered |-> b.loss_limit_triggered]),
       !.progress = Append(@, Percent(Len(@) + 1, total_dates))]

DayRows(b, day_date, total_dates) ==
    DayEnd(b, day_date, b.equity + b.daily_cumulative_profit, total_dates)

\* lines 118-244: one day
ProcessDay(a, objs, day_date, day_trades, total_dates, profit_limit, loss_limit) ==
    DayRows(RowLoop([a EXCEPT !.daily_cumulative_profit = 0,
                              !.profit_limit_triggered = FALSE,
                              !.loss_limit_triggered = FALSE,
                              !.day_trades = <<>>],
                    objs, day_trades, profit_limit, loss_limit),
            day_date, total_dates)

RECURSIVE ProcessDays(_, _, _, _, _, _, _)
ProcessDays(a, objs, days, dates, total_dates, daily_profit_limit, daily_loss_limit) ==
    IF dates = <<>> THEN a
    ELSE ProcessDays(ProcessDay(a, objs, Head(dates), days[Head(dates)], total_dates,
                                daily_profit_limit, daily_loss_limit),
                     objs, days, Tail(dates), total_dates, daily_profit_limit,
                     daily_loss_limit)

\* lines 88-106: the state of a call before the first day
NewCall ==
    [equity |-> 0, max_equity |-> 0, max_drawdown |-> 0,
     gross_profit |-> 0, gross_loss |-> 0,
     executed_trades |-> 0, winning_trades |-> 0, losing_trades |-> 0,
     trade_details |-> <<>>, daily_results |-> <<>>,
     equity_curve |-> <<>>, profitable_days |-> 0, loss_days |-> 0,
     profit_limit_triggered_days |-> 0, loss_limit_triggered_days |-> 0,
     progress |-> <<>>, daily_cumulative_profit |-> 0,
     profit_limit_triggered |-> FALSE, loss_limit_triggered |-> FALSE,
     day_trades |-> <<>>]

\* lines 246-259: the result dictionary of a call that ended in the state a
CallResult(a, total_trades, daily_profit_limit, daily_loss_limit) ==
    [value |->
        [none |-> FALSE,
         daily_profit_limit |-> daily_profit_limit,
         daily_loss_limit |-> daily_loss_limit,
         trade_details |-> a.trade_details,
         daily_results |-> a.daily_results,
         total_profit |-> a.equity,
         profitable_days |-> a.profitable_days,
         loss_days |-> a.loss_days,
         profit_limit_triggered_days |-> a.profit_limit_triggered_days,
         loss_limit_triggered_days |-> a.loss_limit_triggered_days,
         total_trades |-> total_trades,
         executed_trades |-> a.executed_trades,
         winning_trades |-> a.winning_trades,
         losing_trades |-> a.losing_trades,
         profit_factor |->
            IF a.gross_loss > 0
            THEN [inf |-> FALSE, num |-> a.gross_profit, den |-> a.gross_loss]
            ELSE [inf |-> a.gross_profit > 0, num |-> 0, den |-> 1],
         win_rate |->
            IF a.executed_trades > 0
            THEN [num |-> 100 * a.winning_trades, den |-> a.executed_trades]
            ELSE [num |-> 0, den |-> 1],
         max_drawdown |-> a.max_drawdown,
         equity_curve |-> a.equity_curve],
     status |-> <<>>,
     progress |-> a.progress]

\* lines 114-244: the days in ascending date order
AllDays(objs, days, dates, daily_profit_limit, daily_loss_limit) ==
    ProcessDays(NewCall, objs, days, dates, Len(dates), daily_profit_limit,
                daily_loss_limit)

\* lines 67-259: the value returned and the signals emitted
apply_daily_limits(proc, objs, daily_profit_limit, daily_loss_limit) ==
    IF proc.daily_trades.none
    THEN [value |-> [none |-> TRUE], status |-> <<"no trades">>, progress |-> <<>>]
    ELSE IF LimitsRejected(daily_profit_limit, daily_loss_limit)
    THEN [value |-> [none |-> TRUE], status |-> <<"limit not positive">>,
          progress |-> <<>>]
    ELSE CallResult(AllDays(objs, proc.daily_trades.days,
                            SortedList(DOMAIN proc.daily_trades.days),
                            daily_profit_limit, daily_loss_limit),
                    Len(proc.trades.rows), daily_profit_limit, daily_loss_limit)

\* the signals of the call replace those recorded for the call before
Emitted(proc, out) ==
    [proc EXCEPT !.status_signal = out.status, !.progress_signal = out.progress]

UnchangedByProcessor ==
    UNCHANGED <<trade_objs, original_trades, results, pc, profit_limits, loss_limits,
                combinations, max_workers, futures, collected,
                main_window, optimization_panel, results_panel>>

SetTrades ==
    /\ data_processor.trades.none
    /\ data_processor' = set_trades(data_processor, trade_objs,
                                    [i \in DOMAIN trade_objs |-> i])
    /\ UNCHANGED returned
    /\ UnchangedByProcessor

ApplyDailyLimits(daily_profit_limit, daily_loss_limit) ==
    /\ returned' = [op |-> "apply_daily_limits",
                    arg |-> <<daily_profit_limit, daily_loss_limit>>,
                    value |-> apply_daily_limits(data_processor, trade_objs,
                                                 daily_profit_limit,
                                                 daily_loss_limit).value]
    /\ data_processor' = Emitted(data_processor,
                                 apply_daily_limits(data_processor, trade_objs,
                                                    daily_profit_limit, daily_loss_limit))
    /\ UnchangedByProcessor

InitProcessor ==
    /\ trade_objs \in UNION {ProcessorFrames(n) : n \in 0..MaxRows}
    /\ InitOptimizer

NextProcessor ==
    \/ SetTrades
    \/ \E pl \in ProcessorProfitLimits, ll \in ProcessorLossLimits :
            ApplyDailyLimits(pl, ll)

SpecProcessor == InitProcessor /\ [][NextProcessor]_vars

-----------------------------------------------------------------------------
(* apply_daily_limits against the optimizer's _evaluate_parameters *)

AppliedLimits == returned.op = "apply_daily_limits" /\ ~returned.value.none

\* the trade numbers that a day's result lists as executed
ExecutedOn(daily_result) ==
    {daily_result.trades[k].trade_id :
        k \in {j \in DOMAIN daily_result.trades : daily_result.trades[j].executed}}

\* the trade numbers of the optimizer's result that fall on a date
KeptOn(objs, trades, date) ==
    {objs[trades[k]].trade_id :
        k \in {j \in DOMAIN trades : trade_date(objs[trades[j]]) = date}}

\* C24: for the same trades and the same positive limits, apply_daily_limits
\* and _evaluate_parameters give every day the same realized profit, the
\* same trigger flags and the same executed trades, and the same total
\* profit, triggered-day counts and max drawdown.
C24_EnginesAgree ==
    AppliedLimits =>
        LET p == returned.value
            e == _evaluate_parameters(trade_objs, original_trades,
                                      returned.arg[1], returned.arg[2])
        IN  /\ ~e.raised
            /\ \A k \in DOMAIN p.daily_results :
                  LET d == p.daily_results[k]
                      m == e.result.daily_metrics[d.date]
                  IN  /\ d.daily_profit = m.profit
                      /\ d.profit_limit_triggered = m.hit_profit_limit
                      /\ d.loss_limit_triggered = m.hit_loss_limit
                      /\ ExecutedOn(d) = KeptOn(e.objs, e.result.trades, d.date)
            /\ p.total_profit = e.result.total_profit
            /\ p.profit_limit_triggered_days = e.result.hit_profit_limit_days
            /\ p.loss_limit_triggered_days = e.result.hit_loss_limit_days
            /\ p.max_drawdown = e.result.max_drawdown

\* C25: a call with daily_profit_limit <= 0, with daily_loss_limit <= 0 or
\* before any trades were prepared returns None, emits one status message
\* and no progress, and leaves trades and daily_trades as they were.
C25_RejectedCalls ==
    [][\A pl \in ProcessorProfitLimits, ll \in ProcessorLossLimits :
          (/\ ApplyDailyLimits(pl, ll)
           /\ (pl <= 0 \/ ll <= 0 \/ data_processor.daily_trades.none))
          => /\ returned'.value.none
             /\ Len(data_processor'.status_signal) = 1
             /\ data_processor'.progress_signal = <<>>
             /\ data_processor'.trades = data_processor.trades
             /\ data_processor'.daily_trades = data_processor.daily_trades]_vars

\* a call with a non-positive loss limit on prepared trades was rejected
C25_Witness ==
    /\ returned.op = "apply_daily_limits"
    /\ returned.arg[1] > 0
    /\ returned.arg[2] <= 0
    /\ ~data_processor.daily_trades.none
    /\ returned.value.none
    /\ Len(data_processor.status_signal) = 1

\* C26: with both limits > 0 every day's daily_profit lies within
\* [-daily_loss_limit, daily_profit_limit], the adjusted profit of a trade
\* that triggers the profit limit is > 0 and that of a trade that triggers
\* the loss limit is < 0, whatever the recorded excursions are.
C26_DayWithinLimits ==
    AppliedLimits =>
        \A k \in DOMAIN returned.value.daily_results :
            LET d == returned.value.daily_results[k]
            IN  /\ d.daily_profit <= returned.arg[1]
                /\ d.daily_profit >= -returned.arg[2]
                /\ \A j \in DOMAIN d.trades :
                      /\ d.trades[j].reason = "profit limit"
                            => d.trades[j].profit_usd > 0
                      /\ d.trades[j].reason = "loss limit"
                            => d.trades[j].profit_usd < 0

=============================================================================
